---- MODULE Spec2Model ----
\* dro::dense_hashmap (dro/dense_hashmap.hpp, the sentinel-cell variant):
\* a model of detail::dense_hashbase<int, int, std::pair<int, int>> with an
\* injected hash functor, run side by side with an abstract map.
EXTENDS Integers, Sequences, FiniteSets, TLC

\* ------------------------------------------------------------------ bounds
MaxKey == 2          \* keys are 0..MaxKey
MaxCap == 6          \* no container of the model has more than MaxCap cells
MaxCalls == 3        \* a client of the unscripted specification makes at most MaxCalls calls
HashBits == 16       \* every hash value of the model is below 2^HashBits

Keys == 0..MaxKey
Vals == {0, 1}      \* mapped values: the default-constructed one and another
Caps == 1..MaxCap

\* ------------------------------------------------------- program constants
hashable_ratio_ == 82       \* 0.82F, in hundredths
LFDen == 4                  \* load_factor_ and growth_multiple_ are kept in quarters
DefaultLoadFactor == 4      \* load_factor_ = 1.0F
DefaultGrowth == 8          \* growth_multiple_ = 2.0F
WordBits == 64              \* width of uint64_t / unsigned long
SizeTypeMax == 2147483647   \* std::numeric_limits<size_type>::max(), size_type
                            \* narrowed to the 31 bits the checker's integers have

VARIABLES
  buckets_,            \* std::vector<node>: cells 0..capacity_ (capacity_ is the sentinel)
  size_,
  collision_head_,
  collision_tail_,
  capacity_,
  hashable_capacity_,
  load_factor_,        \* in quarters
  growth_multiple_,    \* in quarters
  hash_,               \* the injected hash functor, a function Keys -> Nat
  M,                   \* the abstract map the container is compared with
  last,                \* the last call and what it returned
  fault,               \* "none", or how the last call failed to return
  calls,               \* how many calls the client has made
  phase                \* where the collision functional test stands

vars == <<buckets_, size_, collision_head_, collision_tail_, capacity_,
          hashable_capacity_, load_factor_, growth_multiple_, hash_,
          M, last, fault, calls, phase>>

core == <<buckets_, size_, collision_head_, collision_tail_, capacity_,
          hashable_capacity_, load_factor_, growth_multiple_>>

\* The container as one value (*this).
Self == [buckets_ |-> buckets_, size_ |-> size_,
         collision_head_ |-> collision_head_, collision_tail_ |-> collision_tail_,
         capacity_ |-> capacity_, hashable_capacity_ |-> hashable_capacity_,
         load_factor_ |-> load_factor_, growth_multiple_ |-> growth_multiple_]

\* ------------------------------------------------------------ hash functors
\* std::hash<int> (the identity: keys share a primary slot at some capacities
\* and not at others) and a functor under which every key shares one primary
\* slot at every capacity.
RECURSIVE Pow2(_)
Pow2(n) == IF n = 0 THEN 1 ELSE 2 * Pow2(n - 1)

HashIdentity == [k \in Keys |-> k]
HashSame == [k \in Keys |-> 1]
HashFns == {HashIdentity, HashSame}

\* --------------------------------------------------------------- node cells
\* hashnode<Pair>: pair_.first, pair_.second, fingerprint_full_, next_,
\* value-initialised by buckets_.resize.
hashnode == [first |-> 0, second |-> 0, fingerprint_full_ |-> 0, next_ |-> 0]

_get_full(fingerprint_full) == fingerprint_full % 2 = 1

_get_fingerprint(fingerprint_full) == fingerprint_full \div 2

_set_empty(fingerprint_full) == fingerprint_full - (fingerprint_full % 2)

_set_full(fingerprint_full) == fingerprint_full - (fingerprint_full % 2) + 1

_set_fingerprint(hash) == _set_full(hash)

\* ------------------------------------------------------------- construction
\* static_cast<size_type>(static_cast<float>(capacity) * 0.82F)
HashableOf(capacity) == (capacity * hashable_ratio_) \div 100

\* dense_hashbase(capacity): the caller has checked capacity >= 1.
dense_hashbase(capacity) ==
  [buckets_ |-> [i \in 0..capacity |-> hashnode],
   size_ |-> 0,
   collision_head_ |-> HashableOf(capacity),
   collision_tail_ |-> HashableOf(capacity),
   capacity_ |-> capacity,
   hashable_capacity_ |-> HashableOf(capacity),
   load_factor_ |-> DefaultLoadFactor,
   growth_multiple_ |-> DefaultGrowth]

\* What the data members hold where a constructor has thrown: there is no
\* object.
NoObject ==
  [buckets_ |-> <<>>, size_ |-> 0, collision_head_ |-> 0, collision_tail_ |-> 0,
   capacity_ |-> 0, hashable_capacity_ |-> 0, load_factor_ |-> 0,
   growth_multiple_ |-> 0]

\* The constructor without the test for capacity < 1.
DenseHashmapAnyCapacity(capacity) ==
  IF capacity = SizeTypeMax THEN [c |-> NoObject, st |-> "overflow_error"]
  ELSE [c |-> dense_hashbase(capacity), st |-> "ok"]

\* dense_hashmap(capacity): the constructor with its two tests.
dense_hashmap(capacity) ==
  IF capacity < 1 THEN [c |-> NoObject, st |-> "invalid_argument"]
  ELSE IF capacity = SizeTypeMax THEN [c |-> NoObject, st |-> "overflow_error"]
  ELSE [c |-> dense_hashbase(capacity), st |-> "ok"]

\* ------------------------------------------------------- hash-slot function
RECURSIVE BitLen(_)
BitLen(n) == IF n = 0 THEN 0 ELSE 1 + BitLen(n \div 2)

\* __builtin_clzl(x): its result is undefined for x = 0. z is what it yields
\* there: 63 where the build uses bsr and finds a zeroed register, 64 where it
\* uses lzcnt or clz.
ClzZero == {WordBits - 1, WordBits}

Clzl(x, z) == IF x = 0 THEN z ELSE WordBits - BitLen(x)

\* hash & (~0UL >> s): the shift count is taken modulo the word width, which
\* leaves the low WordBits - s bits of the hash.
MaskShift(hash, s) ==
  LET bits == WordBits - (s % WordBits)
  IN IF bits >= HashBits THEN hash ELSE hash % Pow2(bits)

\* _index_from_hash without the fold of an index that is not below
\* hashable_capacity_.
IndexFromHashUnfolded(c, hash, z) == MaskShift(hash, Clzl(c.hashable_capacity_, z))

_index_from_hash(c, hash, z) ==
  LET index == MaskShift(hash, Clzl(c.hashable_capacity_, z))
  IN IF index >= c.hashable_capacity_ THEN index - c.hashable_capacity_ ELSE index

\* ------------------------------------------------------------------- lookup
\* _find_hash: the walk from the primary slot along next_. st is "ok" when
\* the walk returns, "oob" when it reads a cell outside buckets_ and "hang"
\* when it comes back to a cell it has left (the loop then never ends).
RECURSIVE FindWalk(_, _, _, _, _, _)
FindWalk(c, key, fingerprint, index, prev_index, seen) ==
  IF index > c.capacity_
  THEN [first |-> c.capacity_, second |-> prev_index, st |-> "oob"]
  ELSE LET bucket == c.buckets_[index]
       IN IF /\ _get_full(bucket.fingerprint_full_)
             /\ fingerprint = _get_fingerprint(bucket.fingerprint_full_)
             /\ bucket.first = key
          THEN [first |-> index, second |-> prev_index, st |-> "ok"]
          ELSE IF bucket.next_ = 0
          THEN [first |-> c.capacity_, second |-> index, st |-> "ok"]
          ELSE IF bucket.next_ \in seen \cup {index}
          THEN [first |-> c.capacity_, second |-> index, st |-> "hang"]
          ELSE FindWalk(c, key, fingerprint, bucket.next_, index, seen \cup {index})

_find_hash(c, key, key_hash, z) ==
  FindWalk(c, key, _get_fingerprint(key_hash), _index_from_hash(c, key_hash, z), 0, {})

_find(c, key, h, z) == _find_hash(c, key, h[key], z)

\* ---------------------------------------------------------------- iterators
\* dense_iterator::_next_valid_index: skip forward over cells that are not full.
RECURSIVE _next_valid_index(_, _)
_next_valid_index(c, index) ==
  IF index < c.capacity_ /\ ~_get_full(c.buckets_[index].fingerprint_full_)
  THEN _next_valid_index(c, index + 1)
  ELSE index

\* dense_iterator(hashbase, index): the constructor skips to a full cell.
iterator(c, index) == _next_valid_index(c, index)

begin(c) == iterator(c, 0)

end(c) == iterator(c, c.capacity_)

\* dense_iterator::operator++
Increment(c, index) ==
  IF index < c.capacity_ THEN _next_valid_index(c, index + 1) ELSE index

\* for (auto it = begin(); it != end(); ++it): the indices the loop
\* dereferences, in the order it reaches them, starting at iterator it.
RECURSIVE Traverse(_, _)
Traverse(c, it) ==
  IF it = end(c) THEN <<>> ELSE <<it>> \o Traverse(c, Increment(c, it))

\* ------------------------------------------------------- insert and rehash
\* The load check with size_ in place of size_ + 1.
LoadFactorReached(c) == c.size_ > (c.capacity_ * c.load_factor_) \div LFDen

\* The test of _validate_load_factor_bounds with >= in place of >.
LoadFactorAtBound(c) == c.size_ + 1 >= (c.capacity_ * c.load_factor_) \div LFDen

\* size_ + 1 > static_cast<size_type>(capacity_float * load_factor_)
LoadFactorExceeded(c) == c.size_ + 1 > (c.capacity_ * c.load_factor_) \div LFDen

\* Growth by a single cell instead of the growth multiple.
GrownByOne(c) == c.capacity_ + 1

\* static_cast<size_type>(capacity_float * growth_multiple_)
GrownCapacity(c) == (c.capacity_ * c.growth_multiple_) \div LFDen

\* A swap that exchanges the cells and leaves load_factor_ and
\* growth_multiple_ with the container they were set on.
SwapKeepingSettings(c, other) ==
  [other EXCEPT !.load_factor_ = c.load_factor_,
                !.growth_multiple_ = c.growth_multiple_]

\* std::swap(*this, other): every member is exchanged, so *this ends with the
\* members of other, load_factor_ and growth_multiple_ included.
swap(c, other) == other

RECURSIVE _emplace(_, _, _, _, _)
RECURSIVE _rehash(_, _, _, _)
RECURSIVE RehashFill(_, _, _, _, _)
RECURSIVE _emplace_collisions(_, _, _, _)

\* _validate_load_factor_bounds, when the bound is exceeded, and
\* _validate_collision_space_bounds, when the collision region is used up:
\* rehash to the grown capacity (the caller then starts over).
Grow(c, h, z) == _rehash(c, GrownCapacity(c), h, z)

\* _emplace_collisions: take a collision cell and link it after prev_index.
\* ok = FALSE when the region was full and the container was rehashed instead.
_emplace_collisions(c, prev_index, h, z) ==
  IF c.collision_tail_ = c.collision_head_
  THEN IF c.collision_head_ >= c.capacity_
       THEN LET r == Grow(c, h, z)
            IN [ok |-> FALSE, c |-> r.c, insert_index |-> prev_index, st |-> r.st]
       ELSE LET insert_index == c.collision_head_
            IN [ok |-> TRUE, insert_index |-> insert_index, st |-> "ok",
                c |-> [c EXCEPT !.collision_head_ = @ + 1,
                                !.collision_tail_ = @ + 1,
                                !.buckets_[prev_index].next_ = insert_index]]
  ELSE LET insert_index == c.buckets_[c.collision_head_].next_
           taken == IF insert_index = c.collision_tail_
                    THEN [c EXCEPT !.collision_tail_ = c.collision_head_]
                    ELSE [c EXCEPT !.buckets_[c.collision_head_].next_ =
                                      c.buckets_[insert_index].next_]
       IN [ok |-> TRUE, insert_index |-> insert_index, st |-> "ok",
           c |-> [taken EXCEPT !.buckets_[prev_index].next_ = insert_index]]

\* The early return of _emplace with the mapped value of the found cell
\* value-initialised on the way.
ExistingReset(c, insert_index) ==
  [c |-> [c EXCEPT !.buckets_[insert_index].second = 0],
   first |-> iterator(c, insert_index), second |-> FALSE, st |-> "ok"]

\* The early return of _emplace: the key is there, nothing is touched.
Existing(c, insert_index) ==
  [c |-> c, first |-> iterator(c, insert_index), second |-> FALSE, st |-> "ok"]

\* _emplace(key, value): [c: the container afterwards, first: the index of the
\* returned iterator, second: inserted, st].
_emplace(c, key, val, h, z) ==
  LET key_hash == h[key]
      find_locations == _find_hash(c, key, key_hash, z)
      failed(st) == [c |-> c, first |-> c.capacity_, second |-> FALSE, st |-> st]
  IN IF find_locations.st # "ok" THEN failed(find_locations.st)
     ELSE IF find_locations.first # c.capacity_
     THEN Existing(c, find_locations.first)
     ELSE IF LoadFactorExceeded(c)
     THEN LET r == Grow(c, h, z)
          IN IF r.st # "ok" THEN failed(r.st) ELSE _emplace(r.c, key, val, h, z)
     ELSE LET prev_index == find_locations.second
              a == IF _get_full(c.buckets_[prev_index].fingerprint_full_)
                   THEN _emplace_collisions(c, prev_index, h, z)
                   ELSE [ok |-> TRUE, c |-> c, insert_index |-> prev_index, st |-> "ok"]
          IN IF a.st # "ok" THEN failed(a.st)
             ELSE IF ~a.ok THEN _emplace(a.c, key, val, h, z)
             ELSE LET filled ==
                        [a.c EXCEPT !.buckets_[a.insert_index] =
                                       [first |-> key, second |-> val,
                                        fingerprint_full_ |-> _set_fingerprint(key_hash),
                                        next_ |-> 0],
                                    !.size_ = @ + 1]
                  IN [c |-> filled, first |-> iterator(filled, a.insert_index),
                      second |-> TRUE, st |-> "ok"]

\* The loop of _rehash: other.insert(*it) for it = begin() .. end().
RehashFill(c, other, it, h, z) ==
  IF it = end(c) THEN [c |-> other, st |-> "ok"]
  ELSE LET r == _emplace(other, c.buckets_[it].first, c.buckets_[it].second, h, z)
       IN IF r.st # "ok" THEN [c |-> other, st |-> r.st]
          ELSE RehashFill(c, r.c, Increment(c, it), h, z)

\* _rehash(count): build a container of count cells, insert every entry into
\* it, swap. The constructor throws for count < 1, and buckets_.resize throws
\* where the allocator refuses the array: the allocator of the model serves
\* arrays for up to MaxCap cells and the sentinel.
_rehash(c, cnt, h, z) ==
  IF cnt < 1 THEN [c |-> c, st |-> "invalid_argument"]
  ELSE IF cnt > MaxCap THEN [c |-> c, st |-> "bad_alloc"]
  ELSE LET r == RehashFill(c, dense_hashbase(cnt), begin(c), h, z)
       IN IF r.st # "ok" THEN [c |-> c, st |-> r.st]
          ELSE [c |-> swap(c, r.c), st |-> "ok"]

\* -------------------------------------------------------------------- erase
\* size_type is unsigned: --size_ at 0 wraps to the largest value, which the
\* model writes as -1.
Decrement(n) == n - 1

\* The common tail of _erase without the assignment to collision_tail_.
ReleaseKeepsTail(c, erase_index) ==
  LET emptied == [c.buckets_ EXCEPT
                    ![erase_index].fingerprint_full_ = _set_empty(@),
                    ![erase_index].next_ = 0]
  IN [c EXCEPT !.buckets_ = [emptied EXCEPT ![c.collision_tail_].next_ = erase_index],
               !.size_ = Decrement(@)]

\* The common tail of _erase: empty the cell, end its chain, append it to the
\* free list.
Release(c, erase_index) ==
  LET emptied == [c.buckets_ EXCEPT
                    ![erase_index].fingerprint_full_ = _set_empty(@),
                    ![erase_index].next_ = 0]
  IN [c EXCEPT !.buckets_ = [emptied EXCEPT ![c.collision_tail_].next_ = erase_index],
               !.collision_tail_ = erase_index,
               !.size_ = Decrement(@)]

\* _erase without the test for a key that was not found.
EraseUnchecked(c, key, h, z) ==
  LET find_locations == _find(c, key, h, z)
  IN [c |-> Release(c, find_locations.first), ret |-> 1, st |-> find_locations.st]

\* _erase(key): erase_index and next are references (size_type&): next names
\* bucket.next_, so after std::swap(bucket, buckets_[next]) it reads the
\* next_ that came from the successor.
_erase(c, key, h, z) ==
  LET find_locations == _find(c, key, h, z)
      erase_index == find_locations.first
  IN IF find_locations.st # "ok" THEN [c |-> c, ret |-> 0, st |-> find_locations.st]
     ELSE IF erase_index = c.capacity_ THEN [c |-> c, ret |-> 0, st |-> "ok"]
     ELSE LET bucket == c.buckets_[erase_index]
              next == bucket.next_
          IN IF erase_index < c.hashable_capacity_
             THEN IF next = 0
                  THEN [c |-> [c EXCEPT !.buckets_[erase_index].fingerprint_full_ =
                                           _set_empty(@),
                                        !.size_ = Decrement(@)],
                        ret |-> 1, st |-> "ok"]
                  ELSE LET swapped == [c EXCEPT !.buckets_ =
                                         [i \in DOMAIN c.buckets_ |->
                                            IF i = erase_index THEN c.buckets_[next]
                                            ELSE IF i = next THEN bucket
                                            ELSE c.buckets_[i]]]
                       IN [c |-> Release(swapped, swapped.buckets_[erase_index].next_),
                           ret |-> 1, st |-> "ok"]
             ELSE LET prev_index == find_locations.second
                      unlinked == [c EXCEPT !.buckets_[prev_index].next_ = next]
                  IN [c |-> Release(unlinked, erase_index), ret |-> 1, st |-> "ok"]

\* clear() without the two assignments to the free list.
ClearCells(c) ==
  [c EXCEPT !.buckets_ = [i \in DOMAIN c.buckets_ |->
                            [c.buckets_[i] EXCEPT !.fingerprint_full_ = _set_empty(@),
                                                  !.next_ = 0]],
            !.size_ = 0]

\* clear()
clear(c) ==
  [c EXCEPT !.buckets_ = [i \in DOMAIN c.buckets_ |->
                            [c.buckets_[i] EXCEPT !.fingerprint_full_ = _set_empty(@),
                                                  !.next_ = 0]],
            !.size_ = 0,
            !.collision_head_ = c.hashable_capacity_,
            !.collision_tail_ = c.hashable_capacity_]

\* ----------------------------------------------------------- public lookups
\* count(key): (_find(key).first != capacity_)
count(c, key, h, z) == IF _find(c, key, h, z).first # c.capacity_ THEN 1 ELSE 0

\* contains(key): count(key) as a bool
contains(c, key, h, z) == count(c, key, h, z) = 1

\* find(key): iterator(this, _find(key).first)
find(c, key, h, z) == iterator(c, _find(c, key, h, z).first)

\* at(key) without the throw: it reads the cell _find names in any case.
AtUnchecked(c, key, h, z) ==
  [ret |-> c.buckets_[_find(c, key, h, z).first].second, err |-> "none"]

\* at(key): the mapped value, or std::out_of_range
at(c, key, h, z) ==
  LET index == _find(c, key, h, z).first
  IN IF index # c.capacity_
     THEN [ret |-> c.buckets_[index].second, err |-> "none"]
     ELSE [ret |-> 0, err |-> "out_of_range"]

\* ------------------------------------------------------------- hash policy
\* rehash(count): min_size = static_cast<double>(size_) / load_factor_
RehashCount(c, cnt) ==
  LET min_size == (c.size_ * LFDen) \div c.load_factor_
  IN IF cnt > min_size THEN cnt ELSE min_size

rehash(c, cnt, h, z) == _rehash(c, RehashCount(c, cnt), h, z)

\* reserve with >= in place of >: it rehashes already at the limit.
ReserveEager(c, cnt, h, z) ==
  LET max_capacity == (c.capacity_ * c.load_factor_) \div LFDen
  IN IF cnt >= max_capacity THEN rehash(c, cnt, h, z) ELSE [c |-> c, st |-> "ok"]

\* reserve(count)
reserve(c, cnt, h, z) ==
  LET max_capacity == (c.capacity_ * c.load_factor_) \div LFDen
  IN IF cnt > max_capacity THEN rehash(c, cnt, h, z) ELSE [c |-> c, st |-> "ok"]

\* max_load_factor without the test for an argument above 1.
MaxLoadFactorAboveOne(c, load_factor, h, z) ==
  IF load_factor <= 0
  THEN [c |-> c, st |-> "invalid_argument"]
  ELSE LET set == [c EXCEPT !.load_factor_ = load_factor]
       IN reserve(set, set.size_, h, z)

\* max_load_factor(load_factor), load_factor in quarters
max_load_factor(c, load_factor, h, z) ==
  IF load_factor <= 0 \/ load_factor > LFDen
  THEN [c |-> c, st |-> "invalid_argument"]
  ELSE LET set == [c EXCEPT !.load_factor_ = load_factor]
       IN reserve(set, set.size_, h, z)

\* ------------------------------------------------------------------ actions
\* The abstract map: insert-if-absent, erase, clear.
MInsert(m, k, v) ==
  IF k \in DOMAIN m THEN m ELSE [j \in DOMAIN m \cup {k} |-> IF j = k THEN v ELSE m[j]]

MErase(m, k) == [j \in DOMAIN m \ {k} |-> m[j]]

MEmpty == [j \in {} |-> 0]

\* What the last call was and what it returned: ret is the count, flag or
\* mapped value returned, first the index of the returned iterator, cnt what
\* count() returned, err the exception thrown, z what __builtin_clzl(0)
\* yielded in the call.
Call(op, key, val) ==
  [op |-> op, key |-> key, val |-> val, ret |-> 0, first |-> 0, cnt |-> 0,
   err |-> "none", z |-> WordBits]

Install(c) ==
  /\ buckets_' = c.buckets_
  /\ size_' = c.size_
  /\ collision_head_' = c.collision_head_
  /\ collision_tail_' = c.collision_tail_
  /\ capacity_' = c.capacity_
  /\ hashable_capacity_' = c.hashable_capacity_
  /\ load_factor_' = c.load_factor_
  /\ growth_multiple_' = c.growth_multiple_

\* One call: st is how it ended, c the container it leaves, l what it
\* returned, m the abstract map after it. A call that reads outside buckets_
\* or never leaves its loop does not return: the run ends there. A call that
\* throws leaves the container as it was at the throw, and the abstract map
\* as it was.
Step(st, c, l, m) ==
  /\ fault = "none"
  /\ IF st \in {"oob", "hang"}
     THEN /\ fault' = st
          /\ last' = [Call(l.op, l.key, l.val) EXCEPT !.err = st]
          /\ UNCHANGED <<core, M>>
     ELSE IF st \in {"invalid_argument", "bad_alloc"}
     THEN /\ Install(c)
          /\ last' = [Call(l.op, l.key, l.val) EXCEPT !.err = st]
          /\ UNCHANGED <<M, fault>>
     ELSE /\ Install(c)
          /\ last' = l
          /\ M' = m
          /\ UNCHANGED fault
  /\ UNCHANGED hash_

\* The values of __builtin_clzl(0) a call can meet: they matter only where a
\* container without primary cells is hashed into, that is the container
\* itself (ZOf) or the one a rehash to cnt cells builds (ZRehash).
ZCap(capacity) == IF HashableOf(capacity) = 0 THEN ClzZero ELSE {WordBits}

ZOf(c) == ZCap(c.capacity_)

ZRehash(c, cnt) == ZCap(RehashCount(c, cnt))

InsertOp(k, v) ==
  \E z \in ZOf(Self) :
    LET r == _emplace(Self, k, v, hash_, z)
    IN Step(r.st, r.c,
            [Call("insert", k, v) EXCEPT !.ret = IF r.second THEN 1 ELSE 0,
                                         !.first = r.first,
                                         !.z = z],
            MInsert(M, k, v))

\* operator[](k): returns buckets_[index].pair_.second
IndexOp(k) ==
  \E z \in ZOf(Self) :
    LET r == _emplace(Self, k, 0, hash_, z)
    IN Step(r.st, r.c,
            [Call("index", k, 0) EXCEPT !.ret = r.c.buckets_[r.first].second,
                                        !.first = r.first,
                                        !.z = z],
            MInsert(M, k, 0))

EraseOp(k) ==
  \E z \in ZOf(Self) :
    LET r == _erase(Self, k, hash_, z)
    IN Step(r.st, r.c, [Call("erase", k, 0) EXCEPT !.ret = r.ret, !.z = z],
            MErase(M, k))

ClearOp == Step("ok", clear(Self), Call("clear", 0, 0), MEmpty)

RehashOp(n) ==
  \E z \in ZRehash(Self, n) :
    LET r == rehash(Self, n, hash_, z)
    IN Step(r.st, r.c, [Call("rehash", n, 0) EXCEPT !.z = z], M)

ReserveOp(n) ==
  \E z \in ZRehash(Self, n) :
    LET r == reserve(Self, n, hash_, z)
    IN Step(r.st, r.c, [Call("reserve", n, 0) EXCEPT !.z = z], M)

MaxLoadFactorOp(f) ==
  \E z \in (IF f > 0 THEN ZRehash([Self EXCEPT !.load_factor_ = f], size_) ELSE {WordBits}) :
    LET r == max_load_factor(Self, f, hash_, z)
    IN Step(r.st, r.c, [Call("max_load_factor", f, 0) EXCEPT !.z = z], M)

\* The lookups of one key done the way operator[] does them: an absent key
\* is inserted with a default value first.
LookupDefaulting(k) ==
  \E z \in ZOf(Self) :
    LET r == _emplace(Self, k, 0, hash_, z)
        a == at(r.c, k, hash_, z)
    IN Step(r.st, r.c,
            [Call("lookup", k, 0) EXCEPT !.first = find(r.c, k, hash_, z),
                                         !.cnt = count(r.c, k, hash_, z),
                                         !.ret = a.ret,
                                         !.err = a.err,
                                         !.z = z],
            M)

\* The three lookups of one key: find(k), count(k) and at(k).
LookupOp(k) ==
  \E z \in ZOf(Self) :
    LET a == at(Self, k, hash_, z)
    IN Step(_find(Self, k, hash_, z).st, Self,
            [Call("lookup", k, 0) EXCEPT !.first = find(Self, k, hash_, z),
                                         !.cnt = count(Self, k, hash_, z),
                                         !.ret = a.ret,
                                         !.err = a.err,
                                         !.z = z],
            M)

LoadFactorArgs == {0, 2, 3, 4, 5}     \* 0, 0.5, 0.75, 1.0 and 1.25, in quarters

\* The position of the collision functional test: step is the part it is
\* in, target the entries it has inserted, erased and back the keys it has
\* erased and inserted again, in the order of the calls.
At(step, target, erased, back) ==
  [step |-> step, target |-> target, erased |-> erased, back |-> back]

Outside == At("free", MEmpty, <<>>, <<>>)

\* A call of the unscripted client, on an object that exists and has not
\* trapped.
Free == fault = "none" /\ calls < MaxCalls /\ calls' = calls + 1 /\ UNCHANGED phase

Insert(k, v) == Free /\ InsertOp(k, v)
Index(k) == Free /\ IndexOp(k)
Erase(k) == Free /\ EraseOp(k)
Clear == Free /\ ClearOp
Rehash(n) == Free /\ RehashOp(n)
Reserve(n) == Free /\ ReserveOp(n)
MaxLoadFactor(f) == Free /\ MaxLoadFactorOp(f)
Lookup(k) == Free /\ LookupOp(k)

\* The capacities a container is constructed with: those the constructor
\* accepts, and the two it refuses.
CtorArgs == Caps \cup {0, SizeTypeMax}

\* The state after construction: dense_hashmap<int, int> m(capacity). A
\* constructor that throws leaves no object to call anything on.
Init ==
  /\ \E capacity \in CtorArgs :
       LET r == dense_hashmap(capacity)
       IN /\ buckets_ = r.c.buckets_
          /\ size_ = r.c.size_
          /\ collision_head_ = r.c.collision_head_
          /\ collision_tail_ = r.c.collision_tail_
          /\ capacity_ = r.c.capacity_
          /\ hashable_capacity_ = r.c.hashable_capacity_
          /\ load_factor_ = r.c.load_factor_
          /\ growth_multiple_ = r.c.growth_multiple_
          /\ last = [Call("init", capacity, 0) EXCEPT
                      !.err = IF r.st = "ok" THEN "none" ELSE r.st]
          /\ fault = IF r.st = "ok" THEN "none" ELSE r.st
  /\ hash_ \in HashFns
  /\ M = MEmpty
  /\ calls = 0
  /\ phase = Outside

Next ==
  \/ \E k \in Keys, v \in Vals : Insert(k, v)
  \/ \E k \in Keys : Index(k)
  \/ \E k \in Keys : Erase(k)
  \/ Clear
  \/ \E n \in 0..MaxCap : Rehash(n)
  \/ \E n \in 0..MaxCap : Reserve(n)
  \/ \E f \in LoadFactorArgs : MaxLoadFactor(f)
  \/ \E k \in Keys : Lookup(k)

Spec == Init /\ [][Next]_vars

\* ------------------------------------------- the collision functional test
\* TEST_CASE("collision functional test") with the keys, the values, the
\* capacity and the order of the calls left open: distinct keys are put into
\* an empty container, some of them are erased, the erased ones are put back.
\* The test's own run has capacity 20 and the keys 5, 21, 37, 53, 69.
Range(seq) == {seq[i] : i \in DOMAIN seq}

TestEmplace(k, v) ==
  /\ phase.step = "emplace"
  /\ k \notin DOMAIN phase.target
  /\ InsertOp(k, v)
  /\ phase' = At("emplace", MInsert(phase.target, k, v), <<>>, <<>>)
  /\ UNCHANGED calls

TestErase(k) ==
  /\ phase.step \in {"emplace", "erase"}
  /\ k \in DOMAIN phase.target \ Range(phase.erased)
  /\ EraseOp(k)
  /\ phase' = At("erase", phase.target, Append(phase.erased, k), <<>>)
  /\ UNCHANGED calls

TestEmplaceAgain(k) ==
  /\ phase.step \in {"erase", "again"}
  /\ k \in Range(phase.erased) \ Range(phase.back)
  /\ InsertOp(k, phase.target[k])
  /\ phase' = At("again", phase.target, phase.erased, Append(phase.back, k))
  /\ UNCHANGED calls

TestInit ==
  /\ \E capacity \in Caps :
       LET c == dense_hashbase(capacity)
       IN /\ buckets_ = c.buckets_
          /\ size_ = c.size_
          /\ collision_head_ = c.collision_head_
          /\ collision_tail_ = c.collision_tail_
          /\ capacity_ = c.capacity_
          /\ hashable_capacity_ = c.hashable_capacity_
          /\ load_factor_ = c.load_factor_
          /\ growth_multiple_ = c.growth_multiple_
  /\ hash_ \in HashFns
  /\ M = MEmpty
  /\ last = Call("init", 0, 0)
  /\ fault = "none"
  /\ calls = 0
  /\ phase = At("emplace", MEmpty, <<>>, <<>>)

TestNext ==
  \/ \E k \in Keys, v \in Vals : TestEmplace(k, v)
  \/ \E k \in Keys : TestErase(k)
  \/ \E k \in Keys : TestEmplaceAgain(k)

TestSpec == TestInit /\ [][TestNext]_vars

\* ------------------------------------------------------ the slot function
\* _index_from_hash on its own: a container of any capacity up to MaxSlotCap
\* is constructed and the slots of the hash values up to MaxHash are computed
\* in it.
MaxSlotCap == 24
MaxHash == 70

SlotOp(hash) ==
  \E z \in ZOf(Self) :
    /\ last' = [Call("slot", hash, 0) EXCEPT !.ret = _index_from_hash(Self, hash, z),
                                             !.z = z]
    /\ UNCHANGED <<core, hash_, M, fault, calls, phase>>

SlotInit ==
  /\ \E capacity \in 1..MaxSlotCap :
       LET c == dense_hashbase(capacity)
       IN /\ buckets_ = c.buckets_
          /\ size_ = c.size_
          /\ collision_head_ = c.collision_head_
          /\ collision_tail_ = c.collision_tail_
          /\ capacity_ = c.capacity_
          /\ hashable_capacity_ = c.hashable_capacity_
          /\ load_factor_ = c.load_factor_
          /\ growth_multiple_ = c.growth_multiple_
  /\ hash_ = HashIdentity
  /\ M = MEmpty
  /\ last = Call("init", 0, 0)
  /\ fault = "none"
  /\ calls = 0
  /\ phase = Outside

SlotNext == \E hash \in 0..MaxHash : SlotOp(hash)

SlotSpec == SlotInit /\ [][SlotNext]_vars

\* ------------------------------------------------- the growth multiple
\* A client that sets the growth multiple, inserts and erases: at most
\* MaxGrowCalls calls on a container of any capacity.
MaxGrowCalls == 4

\* growth_multiple(growth_multiple) without its test.
GrowthMultipleAny(c, g) == [c |-> [c EXCEPT !.growth_multiple_ = g], st |-> "ok"]

\* growth_multiple(growth_multiple), growth_multiple in quarters
growth_multiple(c, g) ==
  IF g <= LFDen THEN [c |-> c, st |-> "invalid_argument"]
  ELSE [c |-> [c EXCEPT !.growth_multiple_ = g], st |-> "ok"]

GrowthArgs == {4, 5, 6, 12}     \* 1.0, 1.25, 1.5 and 3.0, in quarters

GrowFree ==
  fault = "none" /\ calls < MaxGrowCalls /\ calls' = calls + 1 /\ UNCHANGED phase

GrowthMultiple(g) ==
  /\ GrowFree
  /\ LET r == growth_multiple(Self, g)
     IN Step(r.st, r.c, Call("growth_multiple", g, 0), M)

GrowInsert(k, v) == GrowFree /\ InsertOp(k, v)

GrowErase(k) == GrowFree /\ EraseOp(k)

GrowNext ==
  \/ \E g \in GrowthArgs : GrowthMultiple(g)
  \/ \E k \in Keys, v \in Vals : GrowInsert(k, v)
  \/ \E k \in Keys : GrowErase(k)

GrowSpec == Init /\ [][GrowNext]_vars

\* ------------------------------------------- insert, one pass at a time
\* _emplace with each pass through its body as a step of its own: a pass
\* returns, throws, or rehashes and starts over. Between the passes of an
\* insert the client does nothing else.
\* A pass that ended the call, and a pass after which the call starts over.
PassEnded(st, c, first, second) ==
  [done |-> TRUE, c |-> c, first |-> first, second |-> second, st |-> st]

PassAgain(c) ==
  [done |-> FALSE, c |-> c, first |-> c.capacity_, second |-> FALSE, st |-> "ok"]

\* The pass after _validate_load_factor_bounds has rehashed (r is what the
\* rehash gave): the call starts over, or the rehash has thrown.
PassAfterGrow(r, c) ==
  IF r.st # "ok" THEN PassEnded(r.st, c, c.capacity_, FALSE) ELSE PassAgain(r.c)

\* The pass after the cell for the entry was chosen (a is what
\* _emplace_collisions gave, or the empty primary cell): the entry is stored,
\* or the collision region was full and the call starts over.
PassAfterCell(a, c, key, val, key_hash) ==
  IF a.st # "ok" THEN PassEnded(a.st, c, c.capacity_, FALSE)
  ELSE IF ~a.ok THEN PassAgain(a.c)
  ELSE LET filled ==
             [a.c EXCEPT !.buckets_[a.insert_index] =
                            [first |-> key, second |-> val,
                             fingerprint_full_ |-> _set_fingerprint(key_hash),
                             next_ |-> 0],
                         !.size_ = @ + 1]
       IN PassEnded("ok", filled, iterator(filled, a.insert_index), TRUE)

\* One pass of _emplace(key, value): done says whether the call has ended.
EmplacePass(c, key, val, h, z) ==
  LET key_hash == h[key]
      find_locations == _find_hash(c, key, key_hash, z)
      prev_index == find_locations.second
  IN IF find_locations.st # "ok" THEN PassEnded(find_locations.st, c, c.capacity_, FALSE)
     ELSE IF find_locations.first # c.capacity_
     THEN PassEnded("ok", c, iterator(c, find_locations.first), FALSE)
     ELSE IF LoadFactorExceeded(c)
     THEN PassAfterGrow(Grow(c, h, z), c)
     ELSE PassAfterCell(IF _get_full(c.buckets_[prev_index].fingerprint_full_)
                        THEN _emplace_collisions(c, prev_index, h, z)
                        ELSE [ok |-> TRUE, c |-> c, insert_index |-> prev_index,
                              st |-> "ok"],
                        c, key, val, key_hash)

\* The insert in progress has started over restarts times.
MaxRestarts == 5

InPass(restarts) == [step |-> "pass", restarts |-> restarts]

LoopFree == phase = Outside /\ GrowFree

LoopGrowthMultiple(g) == LoopFree /\ GrowthMultiple(g)

LoopErase(k) == LoopFree /\ GrowErase(k)

\* insert(k, v) is called: nothing of it has run yet.
LoopBegin(k, v) ==
  /\ phase = Outside /\ fault = "none" /\ calls < MaxGrowCalls
  /\ calls' = calls + 1
  /\ phase' = InPass(0)
  /\ \E z \in ZOf(Self) : last' = [Call("insert", k, v) EXCEPT !.z = z]
  /\ UNCHANGED <<core, hash_, M, fault>>

\* What a pass p of the insert in progress does to the call: it ends it, or
\* it has rehashed and the call starts over.
PassStep(p, z) ==
  IF p.done
  THEN /\ Step(p.st, p.c,
               [Call("insert", last.key, last.val) EXCEPT
                  !.ret = IF p.second THEN 1 ELSE 0, !.first = p.first, !.z = z],
               MInsert(M, last.key, last.val))
       /\ phase' = Outside
       /\ UNCHANGED calls
  ELSE /\ Install(p.c)
       /\ phase' = InPass(phase.restarts + 1)
       /\ UNCHANGED <<hash_, M, last, fault, calls>>

\* The next pass of the insert in progress.
LoopPass ==
  /\ phase.step = "pass" /\ fault = "none" /\ phase.restarts < MaxRestarts
  /\ \E z \in ZOf(Self) :
       PassStep(EmplacePass(Self, last.key, last.val, hash_, z), z)

LoopNext ==
  \/ \E g \in GrowthArgs : LoopGrowthMultiple(g)
  \/ \E k \in Keys : LoopErase(k)
  \/ \E k \in Keys, v \in Vals : LoopBegin(k, v)
  \/ LoopPass

LoopSpec == Init /\ [][LoopNext]_vars

\* ------------------------------------------------ erase through iterators
\* A client fills an empty container with inserts and then empties it
\* through iterators: by it = erase(it) from begin() until it == end(), or
\* by one call erase(begin(), end()).
\* erase(it): erase the key of the cell the iterator is at and return an
\* iterator made from the same index.
EraseIterator(c, it, h, z) ==
  LET r == _erase(c, c.buckets_[it].first, h, z)
  IN [c |-> r.c, it |-> iterator(r.c, it), st |-> r.st]

\* erase(it_start, it_end): erase the key of the cell it_start is at, then
\* ++it_start, until it_start reaches it_end or end().
RECURSIVE EraseRange(_, _, _, _, _)
EraseRange(c, it_start, it_end, h, z) ==
  IF it_start # it_end /\ it_start # end(c)
  THEN LET r == _erase(c, c.buckets_[it_start].first, h, z)
       IN IF r.st # "ok" THEN [c |-> c, it |-> it_start, st |-> r.st]
          ELSE EraseRange(r.c, Increment(r.c, it_start), it_end, h, z)
  ELSE [c |-> c, it |-> iterator(c, it_start), st |-> "ok"]

\* Where the client is: filling, in the loop with its iterator at it, or
\* after the call of erase(begin(), end()) that returned it.
Filling == [step |-> "fill", it |-> 0]

InLoop(it) == [step |-> "loop", it |-> it]

AfterRange(it) == [step |-> "range", it |-> it]

IterInsert(k, v) ==
  /\ phase = Filling
  /\ InsertOp(k, v)
  /\ UNCHANGED <<phase, calls>>

\* auto it = begin();
IterBegin ==
  /\ phase = Filling /\ fault = "none"
  /\ phase' = InLoop(begin(Self))
  /\ last' = [Call("begin", 0, 0) EXCEPT !.first = begin(Self)]
  /\ UNCHANGED <<core, hash_, M, fault, calls>>

\* it = erase(it); inside while (it != end())
IterErase ==
  /\ phase.step = "loop" /\ phase.it # end(Self)
  /\ \E z \in ZOf(Self) :
       LET r == EraseIterator(Self, phase.it, hash_, z)
           k == buckets_[phase.it].first
       IN /\ Step(r.st, r.c,
                  [Call("erase_iterator", k, 0) EXCEPT !.first = r.it, !.z = z],
                  MErase(M, k))
          /\ phase' = InLoop(r.it)
  /\ UNCHANGED calls

\* erase(begin(), end());
IterEraseRange ==
  /\ phase = Filling
  /\ \E z \in ZOf(Self) :
       LET r == EraseRange(Self, begin(Self), end(Self), hash_, z)
       IN /\ Step(r.st, r.c,
                  [Call("erase_range", 0, 0) EXCEPT !.first = r.it, !.z = z],
                  MEmpty)
          /\ phase' = AfterRange(r.it)
  /\ UNCHANGED calls

IterInit ==
  /\ \E capacity \in Caps :
       LET c == dense_hashbase(capacity)
       IN /\ buckets_ = c.buckets_
          /\ size_ = c.size_
          /\ collision_head_ = c.collision_head_
          /\ collision_tail_ = c.collision_tail_
          /\ capacity_ = c.capacity_
          /\ hashable_capacity_ = c.hashable_capacity_
          /\ load_factor_ = c.load_factor_
          /\ growth_multiple_ = c.growth_multiple_
  /\ hash_ \in HashFns
  /\ M = MEmpty
  /\ last = Call("init", 0, 0)
  /\ fault = "none"
  /\ calls = 0
  /\ phase = Filling

IterNext ==
  \/ \E k \in Keys, v \in Vals : IterInsert(k, v)
  \/ IterBegin
  \/ IterErase
  \/ IterEraseRange

IterSpec == IterInit /\ [][IterNext]_vars

\* ------------------------------------------------------------------- claims
\* The step's call returned: it neither threw nor failed to come back.
Returned == fault' = "none" /\ last'.err = "none"

\* What a client sees of key k in container c, with z for __builtin_clzl(0).
Holds(c, k, z) == contains(c, k, hash_, z)

FindsEnd(c, k, z) == find(c, k, hash_, z) = end(c)

ValueOf(c, k, z) == at(c, k, hash_, z).ret

Walks(c, k, z) == _find(c, k, hash_, z).st = "ok"

\* A cell of [0, capacity_) is full and holds k with the value v.
Stores(c, k, v) ==
  \E i \in 0..(c.capacity_ - 1) :
    /\ _get_full(c.buckets_[i].fingerprint_full_)
    /\ c.buckets_[i].first = k
    /\ c.buckets_[i].second = v

\* C1: run side by side with the abstract map M, the container agrees with
\* it after every sequence of calls: size() = |M| and, for every key k,
\* contains(k) and find(k) != end() hold iff k is in M, and at(k) = M[k].
C1_AgreesWithMap ==
  fault = "none" =>
    /\ size_ = Cardinality(DOMAIN M)
    /\ \A k \in Keys : \A z \in ZOf(Self) :
         Walks(Self, k, z) =>
           /\ Holds(Self, k, z) <=> k \in DOMAIN M
           /\ ~FindsEnd(Self, k, z) <=> k \in DOMAIN M
           /\ k \in DOMAIN M => ValueOf(Self, k, z) = M[k]

\* C2: erase(k) of a present key returns 1, decreases size by exactly 1,
\* makes find(k) == end(), and leaves every other present key present with
\* its value, wherever the cell of k is.
ErasedPresent ==
  /\ last'.op = "erase"
  /\ Returned
  /\ Holds(Self, last'.key, last'.z)

C2_ErasePresent ==
  [][ErasedPresent =>
       /\ last'.ret = 1
       /\ size_' = size_ - 1
       /\ FindsEnd(Self', last'.key, last'.z)
       /\ \A j \in Keys \ {last'.key} :
            Holds(Self, j, last'.z) =>
              /\ Holds(Self', j, last'.z)
              /\ ValueOf(Self', j, last'.z) = ValueOf(Self, j, last'.z)]_vars

\* C3: insert of a key that is already present returns inserted = false and
\* changes nothing: size, bucket_count, head, tail, every cell and the stored
\* value stay as they were, also when another value comes with the key.
InsertedPresent ==
  /\ last'.op = "insert"
  /\ Returned
  /\ Holds(Self, last'.key, last'.z)

C3_InsertPresent == [][InsertedPresent => last'.ret = 0 /\ UNCHANGED core]_vars

\* C3 happens: an insert of a present key with another value has returned.
C3_Witness ==
  /\ fault = "none"
  /\ last.op = "insert" /\ last.err = "none" /\ last.ret = 0
  /\ Holds(Self, last.key, last.z)
  /\ ValueOf(Self, last.key, last.z) # last.val
  /\ size_ >= 2

\* C4: while distinct keys are inserted into a container that was empty,
\* whatever its initial capacity, every insert returns inserted = true, each
\* inserted key is contained and size() is the number of keys inserted.
C4_DistinctInserts ==
  (phase.step = "emplace" /\ fault = "none") =>
    /\ last.op = "insert" => last.ret = 1
    /\ size_ = Cardinality(DOMAIN phase.target)
    /\ \A k \in DOMAIN phase.target : \E z \in ZOf(Self) : Holds(Self, k, z)

\* C5: keys inserted into an empty container and then erased one by one, in
\* any order: each erase returns 1, and once all are erased size() == 0,
\* begin() == end() and contains(k) is false for every key.
C5_EraseAll ==
  (phase.step = "erase" /\ fault = "none") =>
    /\ last.ret = 1
    /\ Range(phase.erased) = DOMAIN phase.target =>
         /\ size_ = 0
         /\ begin(Self) = end(Self)
         /\ \A k \in Keys : \A z \in ZOf(Self) : ~Holds(Self, k, z)

\* C6: after keys of one chain were erased and inserted again in another
\* order, every key is present with its value and size is what it was.
SharedSlot == hash_ = HashSame

C6_EraseReinsert ==
  (/\ phase.step = "again" /\ fault = "none"
   /\ SharedSlot
   /\ Range(phase.back) = Range(phase.erased)
   /\ phase.back # phase.erased) =>
    /\ size_ = Cardinality(DOMAIN phase.target)
    /\ \A k \in DOMAIN phase.target : \E z \in ZOf(Self) :
         Holds(Self, k, z) /\ ValueOf(Self, k, z) = phase.target[k]

\* C7: erase(k) of a key that is not present (contains(k) is false) returns
\* 0 and leaves the whole state unchanged: size, every cell, head, tail and
\* capacity.
ErasedAbsent ==
  /\ last'.op = "erase"
  /\ Returned
  /\ ~Holds(Self, last'.key, last'.z)

C7_EraseAbsent == [][ErasedAbsent => last'.ret = 0 /\ UNCHANGED core]_vars

\* C7 happens: an erase of an absent key has returned, in a container whose
\* cells hold a chain.
C7_Witness ==
  /\ fault = "none"
  /\ last.op = "erase" /\ last.err = "none" /\ last.ret = 0
  /\ \E i \in 0..(capacity_ - 1) :
       _get_full(buckets_[i].fingerprint_full_) /\ buckets_[i].next_ # 0

\* C8: operator[](k) inserts k with a default-constructed value when k is
\* absent and returns that value; when k is present it returns the value
\* that is there and changes neither size nor bucket_count.
Indexed == last'.op = "index" /\ Returned

C8_Index ==
  [][Indexed =>
       IF Holds(Self, last'.key, last'.z)
       THEN /\ last'.ret = ValueOf(Self, last'.key, last'.z)
            /\ size_' = size_
            /\ capacity_' = capacity_
       ELSE /\ last'.ret = 0
            /\ size_' = size_ + 1
            /\ \E z \in ZOf(Self') :
                 Holds(Self', last'.key, z) /\ ValueOf(Self', last'.key, z) = 0]_vars

\* C9: at(k) with k absent throws std::out_of_range and leaves the container
\* as it was, and find(k) is end() for that k; at(k) with k present returns
\* the value stored with k.
LookedUp == last'.op = "lookup" /\ fault' = "none"

C9_At ==
  [][LookedUp =>
       /\ UNCHANGED core
       /\ IF Holds(Self, last'.key, last'.z)
          THEN /\ last'.err = "none"
               /\ Stores(Self, last'.key, last'.ret)
          ELSE /\ last'.err = "out_of_range"
               /\ last'.first = end(Self)]_vars

\* C9 happens: at(k) has thrown for a key that a non-empty container does
\* not hold.
C9_Witness ==
  /\ fault = "none"
  /\ last.op = "lookup" /\ last.err = "out_of_range"
  /\ last.first = end(Self)
  /\ size_ >= 1

\* C10: right after an insert that returned inserted = true, with or without
\* a rehash, size <= max_load_factor() * bucket_count().
C10_LoadBound ==
  (fault = "none" /\ last.op = "insert" /\ last.err = "none" /\ last.ret = 1) =>
    size_ * LFDen <= load_factor_ * capacity_

\* C10 happens: an insert has returned true and filled a container whose
\* maximum load factor is below 1 up to the bound.
C10_Witness ==
  /\ fault = "none"
  /\ last.op = "insert" /\ last.err = "none" /\ last.ret = 1
  /\ load_factor_ < LFDen
  /\ size_ * LFDen = load_factor_ * capacity_


\* The cells of [0, capacity_) of c that are full.
Occupied(c) ==
  {i \in 0..(c.capacity_ - 1) : _get_full(c.buckets_[i].fingerprint_full_)}

\* C11: a loop from begin() to end() over a container nobody mutates
\* visits each occupied cell once, in strictly increasing index order, never
\* an unoccupied cell and never the sentinel cell, so that the number of
\* entries visited is size().
C11_Iteration ==
  fault = "none" =>
    LET visited == Traverse(Self, begin(Self)) IN
      /\ \A i \in 1..Len(visited) : visited[i] \in Occupied(Self)
      /\ \A i \in 1..(Len(visited) - 1) : visited[i] < visited[i + 1]
      /\ Occupied(Self) \subseteq Range(visited)
      /\ Len(visited) = size_

\* The part of C11 about the cells alone: the loop visits exactly the
\* occupied cells of [0, capacity_), each once and in increasing order.
C11_VisitsOccupied ==
  fault = "none" =>
    LET visited == Traverse(Self, begin(Self)) IN
      /\ Range(visited) = Occupied(Self)
      /\ \A i \in 1..(Len(visited) - 1) : visited[i] < visited[i + 1]


\* The step is a call of rehash that returned.
Rehashed == last'.op = "rehash" /\ Returned

\* C12: for every n, rehash(n) leaves the set of (key, value) pairs as it
\* was: size() is the same, the same keys are present and each has the same
\* value, whatever calls came before.
C12_RehashKeeps ==
  [][Rehashed =>
       /\ size_' = size_
       /\ \A k \in Keys :
            (Walks(Self, k, last'.z) /\ Walks(Self', k, last'.z)) =>
              /\ Holds(Self', k, last'.z) <=> Holds(Self, k, last'.z)
              /\ Holds(Self, k, last'.z) =>
                   ValueOf(Self', k, last'.z) = ValueOf(Self, k, last'.z)]_vars


Max(a, b) == IF a > b THEN a ELSE b

\* The least integer that is at least a / b.
CeilDiv(a, b) == (a + b - 1) \div b

\* C13: after rehash(n) has returned, bucket_count() is
\* max(n, ceil(size / max_load)), size and max_load being those the call
\* found; in particular it is n when n >= size / max_load.
C13_RehashCapacity ==
  [][Rehashed =>
       capacity_' = Max(last'.key, CeilDiv(size_ * LFDen, load_factor_))]_vars


\* The step is a call of max_load_factor(f) that returned.
LoadFactorSet == last'.op = "max_load_factor" /\ Returned

\* C14: after max_load_factor(f) with 0 < f <= 1 has returned,
\* max_load_factor() is f and size() <= f * bucket_count(), also when the
\* call had to rehash.
C14_LoadFactorSet ==
  [][LoadFactorSet =>
       /\ load_factor_' = last'.key
       /\ size_' * LFDen <= last'.key * capacity_']_vars


\* The step is a call of reserve(n) with n <= max_load_factor() * bucket_count().
ReservedWithin ==
  /\ last'.op = "reserve" /\ fault' = "none"
  /\ last'.key * LFDen <= load_factor_ * capacity_

\* C15: reserve(n) with n <= max_load * C is a no-op: bucket count, cells,
\* size, free-list head and tail and maximum load factor are unchanged, and
\* nothing is thrown; reserve rehashes only if n > max_load * C.
C15_ReserveNoOp == [][ReservedWithin => (UNCHANGED core /\ last'.err = "none")]_vars

\* C15 happens: reserve(n) with 0 < n <= max_load * C has been called on a
\* container that holds an entry and whose maximum load factor is below 1
\* (a rehash would have put it back to 1).
C15_Witness ==
  /\ fault = "none" /\ last.op = "reserve" /\ last.err = "none"
  /\ last.key > 0 /\ size_ > 0
  /\ load_factor_ < LFDen
  /\ last.key * LFDen <= load_factor_ * capacity_


\* c without what no operation reads: the key, value and fingerprint that a
\* cell which is not full still holds.
Blank(c) ==
  [c EXCEPT !.buckets_ =
     [i \in DOMAIN c.buckets_ |->
        IF _get_full(c.buckets_[i].fingerprint_full_) THEN c.buckets_[i]
        ELSE [hashnode EXCEPT !.next_ = c.buckets_[i].next_]]]

\* The step is a call of clear().
Cleared == last'.op = "clear" /\ fault' = "none"

\* An insert into a and the same insert into b return the same and leave
\* the same container.
SameInsert(a, b) ==
  \A k \in Keys : \A v \in Vals : \A z \in ZOf(a) :
    LET ra == _emplace(a, k, v, hash_, z)
        rb == _emplace(b, k, v, hash_, z)
    IN /\ ra.st = rb.st
       /\ ra.st = "ok" =>
            /\ ra.first = rb.first /\ ra.second = rb.second
            /\ Blank(ra.c) = Blank(rb.c)

\* C16 as stated: after clear() the container cannot be told from a freshly
\* constructed one of the same capacity: size 0, every cell, the sentinel
\* included, unoccupied with next = 0, head = tail = H, the bucket count
\* unchanged, begin() = end(), and every later call gives what it gives on a
\* fresh container.
C16_ClearFresh ==
  [][Cleared =>
       /\ Blank(Self') = dense_hashbase(capacity_)
       /\ begin(Self') = end(Self')
       /\ SameInsert(Self', dense_hashbase(capacity_))]_vars

\* The fresh container of the capacity of c with the maximum load factor and
\* the growth multiple of c.
FreshLike(c) ==
  [dense_hashbase(c.capacity_) EXCEPT !.load_factor_ = c.load_factor_,
                                      !.growth_multiple_ = c.growth_multiple_]

\* C16 amended: after clear() the container cannot be told from a freshly
\* constructed one of the same capacity on which max_load_factor and
\* growth_multiple have been set to the values the cleared container has.
C16_ClearKeepsSettings ==
  [][Cleared =>
       /\ Blank(Self') = FreshLike(Self)
       /\ begin(Self') = end(Self')
       /\ SameInsert(Self', FreshLike(Self))]_vars

\* C16 happens: clear() has emptied a container that held an entry, in a
\* chain or after a change of the maximum load factor.
C16_Witness ==
  /\ fault = "none" /\ last.op = "clear" /\ size_ = 0
  /\ \E i \in DOMAIN buckets_ : buckets_[i].fingerprint_full_ # 0
  /\ load_factor_ < LFDen


\* The step is a call of insert or emplace that returned.
Inserted == last'.op = "insert" /\ Returned

\* The cell the returned iterator is at is full and holds the key given.
AtKey ==
  /\ _get_full(buckets_'[last'.first].fingerprint_full_)
  /\ buckets_'[last'.first].first = last'.key

\* C17: insert and emplace return an iterator that refers to the cell
\* holding the key given: it is not end(), the cell is full and holds the
\* key; with inserted = true the cell holds the value given, also after
\* rehashes, and with inserted = false it is the cell find() gave before the
\* call, unchanged.
C17_InsertIterator ==
  [][Inserted =>
       /\ last'.first # end(Self')
       /\ AtKey
       /\ last'.ret = 1 => buckets_'[last'.first].second = last'.val
       /\ last'.ret = 0 =>
            /\ last'.first = find(Self, last'.key, hash_, last'.z)
            /\ buckets_'[last'.first] = buckets_[last'.first]]_vars

\* C17 without the comparison with end(): the iterator's cell holds the key.
C17_InsertCell == [][Inserted => AtKey]_vars


\* The step is a call of max_load_factor(f) with f <= 0 or f > 1.
LoadFactorRefused ==
  last'.op = "max_load_factor" /\ (last'.key <= 0 \/ last'.key > LFDen)

\* C18: max_load_factor(f) with f <= 0 or f > 1 fails with
\* std::invalid_argument and leaves max_load_factor(), bucket_count() and
\* the contents as they were.
C18_LoadFactorRefused ==
  [][LoadFactorRefused =>
       /\ fault' = "none" /\ last'.err = "invalid_argument"
       /\ UNCHANGED core]_vars

\* C18 happens: max_load_factor(f) with f > 1 has been refused by a
\* container that holds an entry and has a maximum load factor below 1.
C18_Witness ==
  /\ fault = "none" /\ last.op = "max_load_factor"
  /\ last.key > LFDen /\ last.err = "invalid_argument"
  /\ size_ > 0 /\ load_factor_ < LFDen


\* C19: construction with C < 1 fails with std::invalid_argument and with
\* C = numeric_limits<size_type>::max() with std::overflow_error; every
\* other C gives a container with bucket_count() = C, size() = 0, every cell
\* unoccupied and head = tail = H, H being floor(0.82 * C).
C19_Construct ==
  last.op = "init" =>
    IF last.key < 1 THEN last.err = "invalid_argument" /\ fault = last.err
    ELSE IF last.key = SizeTypeMax THEN last.err = "overflow_error" /\ fault = last.err
    ELSE /\ last.err = "none" /\ fault = "none"
         /\ capacity_ = last.key
         /\ size_ = 0
         /\ DOMAIN buckets_ = 0..capacity_
         /\ \A i \in DOMAIN buckets_ : ~_get_full(buckets_[i].fingerprint_full_)
         /\ collision_head_ = hashable_capacity_
         /\ collision_tail_ = hashable_capacity_
         /\ hashable_capacity_ * 100 <= hashable_ratio_ * capacity_
         /\ hashable_ratio_ * capacity_ < (hashable_capacity_ + 1) * 100

\* C19 happens: a construction with the largest size_type has been refused.
C19_Witness ==
  last.op = "init" /\ last.key = SizeTypeMax /\ fault = "overflow_error"

\* C19 happens as well for a capacity the constructor accepts.
C19_Accepted ==
  last.op = "init" /\ last.key = MaxCap /\ fault = "none" /\ capacity_ = MaxCap


\* What find, contains, count and at give for key k in container c.
Answers(c, k, z) ==
  [find |-> find(c, k, hash_, z),
   contains |-> contains(c, k, hash_, z),
   count |-> count(c, k, hash_, z),
   at |-> at(c, k, hash_, z)]

\* C20: find, contains, count and at, for present and for absent keys, do
\* not modify the container: no data member changes, so every lookup of
\* every key gives after the call what it gave before it, in any number and
\* any order.
C20_LookupsPure ==
  [][LookedUp =>
       /\ UNCHANGED <<core, M>>
       /\ last'.first = find(Self, last'.key, hash_, last'.z)
       /\ last'.cnt = count(Self, last'.key, hash_, last'.z)
       /\ \A k \in Keys : \A z \in ZOf(Self) :
            Walks(Self, k, z) => Answers(Self', k, z) = Answers(Self, k, z)]_vars

\* C20 happens: a key that a container with a chain holds has been looked
\* up and found in a collision cell.
C20_Witness ==
  /\ fault = "none"
  /\ last.op = "lookup" /\ last.err = "none" /\ last.cnt = 1
  /\ last.first >= hashable_capacity_ /\ last.first < capacity_
  /\ hashable_capacity_ >= 1
  /\ size_ >= 2


\* The step is a call of rehash, reserve or insert in which building or
\* filling the replacement array failed.
RehashFailed ==
  /\ last'.op \in {"rehash", "reserve", "insert", "index"}
  /\ last'.err \in {"bad_alloc", "invalid_argument"}

\* C21: if building or filling the replacement array fails during a rehash,
\* explicit or triggered by an insert, the container is exactly as before
\* the call: same bucket count, cells, size, head, tail and maximum load
\* factor.
C21_RehashFailureKeeps == [][RehashFailed => UNCHANGED core]_vars

\* C21 for the explicit calls alone: a rehash or reserve that fails leaves
\* the container as it was.
C21_ExplicitFailureKeeps ==
  [][(RehashFailed /\ last'.op \in {"rehash", "reserve"}) => UNCHANGED core]_vars


\* The step is a call of erase that returned, for a key that find locates in
\* a primary cell with a successor.
ErasedHead ==
  /\ last'.op = "erase" /\ Returned
  /\ Walks(Self, last'.key, last'.z)
  /\ LET i == _find(Self, last'.key, hash_, last'.z).first
     IN i < hashable_capacity_ /\ buckets_[i].next_ # 0

\* C22: when erase removes a key stored in a primary cell i whose next link
\* n is not 0, cell i afterwards holds the entry that was at n with that
\* entry's next link, cell n is unoccupied with next = 0 and is the new tail
\* of the free list, size is one less, and no cell but i, n and the previous
\* tail cell has changed.
C22_EraseHead ==
  [][ErasedHead =>
       LET i == _find(Self, last'.key, hash_, last'.z).first
           n == buckets_[i].next_
       IN /\ buckets_'[i] = buckets_[n]
          /\ ~_get_full(buckets_'[n].fingerprint_full_)
          /\ buckets_'[n].next_ = 0
          /\ collision_tail_' = n
          /\ size_' = size_ - 1
          /\ \A j \in DOMAIN buckets_ :
               j \notin {i, n, collision_tail_} => buckets_'[j] = buckets_[j]]_vars


\* The cells that following next_ from cell i reaches, i included, added
\* to seen; the walk stops at a link of 0, at a cell it has seen and outside
\* the array.
RECURSIVE ChainFrom(_, _, _)
ChainFrom(c, i, seen) ==
  IF i \in seen \/ i \notin DOMAIN c.buckets_ THEN seen
  ELSE IF c.buckets_[i].next_ = 0 THEN seen \cup {i}
  ELSE ChainFrom(c, c.buckets_[i].next_, seen \cup {i})

Chain(c, p) == ChainFrom(c, p, {})

\* The primary cells of c, and those of them that are full.
Primary(c) == 0..(c.hashable_capacity_ - 1)

Heads(c) == {p \in Primary(c) : _get_full(c.buckets_[p].fingerprint_full_)}

\* C23: in every reachable state every occupied cell can be reached by
\* find: an occupied collision cell lies on the chain of exactly one occupied
\* primary cell, no occupied cell is orphaned or shared by two chains, and an
\* unoccupied primary cell has next = 0 and no occupied cell links to it.
C23_ChainsCoverOccupied ==
  fault = "none" =>
    /\ \A i \in Occupied(Self) \ Primary(Self) :
         Cardinality({p \in Heads(Self) : i \in Chain(Self, p)}) = 1
    /\ \A p \in Primary(Self) \ Heads(Self) :
         /\ buckets_[p].next_ = 0
         /\ p # 0 => \A j \in Occupied(Self) : buckets_[j].next_ # p


\* C24: in every reachable state size() is the number of cells of
\* [0, capacity_) whose occupied bit is set.
C24_SizeCountsOccupied ==
  fault = "none" => size_ = Cardinality(Occupied(Self))


\* C25: in every reachable state every occupied cell on the chain that
\* starts at an occupied primary cell p holds a key whose hash maps to
\* primary slot p under the current hashable capacity, also right after a
\* rehash has changed it.
C25_ChainsShareSlot ==
  fault = "none" =>
    \A p \in Heads(Self) : \A i \in Chain(Self, p) \cap Occupied(Self) :
      \A z \in ZOf(Self) :
        _index_from_hash(Self, hash_[buckets_[i].first], z) = p


\* C26: in every reachable state the next link of every occupied cell is 0
\* or the index of an occupied cell of [H, C), so that neither 0 nor a primary
\* index is ever a successor; chains have no cycle, and the walk of find from
\* any primary cell passes at most C - H + 1 cells.
C26_LinksWellFormed ==
  fault = "none" =>
    /\ \A i \in Occupied(Self) :
         LET n == buckets_[i].next_
         IN n # 0 =>
              /\ n >= hashable_capacity_ /\ n < capacity_
              /\ n \in Occupied(Self)
              /\ i \notin Chain(Self, n)
    /\ \A p \in Primary(Self) :
         Cardinality(Chain(Self, p)) <= capacity_ - hashable_capacity_ + 1


\* The cells that following next_ from cell i passes up to the tail of the
\* free list, in order; the walk gives up at a cell it has passed and
\* outside the array.
RECURSIVE FreeWalk(_, _, _)
FreeWalk(c, i, passed) ==
  IF i \in Range(passed) \/ i \notin DOMAIN c.buckets_ THEN passed
  ELSE IF i = c.collision_tail_ THEN Append(passed, i)
  ELSE FreeWalk(c, c.buckets_[i].next_, Append(passed, i))

\* The free list: the cells from buckets_[collision_head_].next_ to
\* collision_tail_ when head and tail differ.
FreeList(c) ==
  IF c.collision_head_ = c.collision_tail_ THEN <<>>
  ELSE FreeWalk(c, c.buckets_[c.collision_head_].next_, <<>>)

\* The collision cells that have been handed out and are not occupied: those
\* erased and not used again.
Reclaimed(c) ==
  {i \in c.hashable_capacity_..(c.collision_head_ - 1) :
     i < c.capacity_ /\ ~_get_full(c.buckets_[i].fingerprint_full_)}

\* C27: in every reachable state the cells on the free list, from
\* cells[head].next up to tail, are exactly the collision cells that were
\* erased and not used again: all unoccupied, all in [H, C), none twice, the
\* last one the tail, and none of the erased cells missing.
C27_FreeListExact ==
  fault = "none" =>
    LET free == FreeList(Self) IN
      /\ \A j \in 1..Len(free) :
           /\ free[j] >= hashable_capacity_ /\ free[j] < capacity_
           /\ ~_get_full(buckets_[free[j]].fingerprint_full_)
      /\ Len(free) > 0 => free[Len(free)] = collision_tail_
      /\ Range(free) = Reclaimed(Self)


\* C28: in every reachable state head and tail are indices of [H, C]: both
\* are H after construction and after clear, and no insert or erase moves
\* either of them below H or above C.
C28_HeadTailInRange ==
  fault = "none" =>
    /\ hashable_capacity_ <= collision_head_ /\ collision_head_ <= capacity_
    /\ hashable_capacity_ <= collision_tail_ /\ collision_tail_ <= capacity_
    /\ last.op \in {"init", "clear"} =>
         /\ collision_head_ = hashable_capacity_
         /\ collision_tail_ = hashable_capacity_

\* The part of C28 about head: the bump pointer stays in [H, C].
C28_HeadInRange ==
  fault = "none" =>
    hashable_capacity_ <= collision_head_ /\ collision_head_ <= capacity_


NeedsCollisionCell ==
  /\ fault = "none"
  /\ last'.op \in {"insert", "index"}
  /\ LET find_locations == _find_hash(Self, last'.key, hash_[last'.key], last'.z)
     IN /\ find_locations.st = "ok"
        /\ find_locations.first = capacity_
        /\ ~LoadFactorExceeded(Self)
        /\ _get_full(buckets_[find_locations.second].fingerprint_full_)

\* The step keeps the array: it is an insertion or an erasure without a
\* rehash.
KeepsArray ==
  /\ fault = "none"
  /\ last'.op \in {"insert", "index", "erase"}
  /\ capacity_' = capacity_

\* C30: collision cells are handed out first in, first out, and before the
\* bump pointer moves. An erasure that frees a cell appends it to the free
\* list. An insertion that needs a collision cell while the free list is not
\* empty gets the cell at the front of the list, the least recently freed
\* one, which is an erased collision cell; the rest of the list stays in
\* order and head stays. Head moves only in an insertion that needs a
\* collision cell while the free list is empty and head < C, and then by one.
C30_FifoReuse ==
  [][/\ (NeedsCollisionCell /\ Returned /\ FreeList(Self) # <<>>) =>
          /\ Head(FreeList(Self)) \in Reclaimed(Self)
          /\ last'.first = Head(FreeList(Self))
          /\ FreeList(Self)' = Tail(FreeList(Self))
          /\ collision_head_' = collision_head_
     /\ (KeepsArray /\ Returned /\ last'.op = "erase" /\ last'.ret = 1) =>
          \/ FreeList(Self)' = FreeList(Self)
          \/ \E i \in Reclaimed(Self)' \ Reclaimed(Self) :
               FreeList(Self)' = Append(FreeList(Self), i)
     /\ (KeepsArray /\ Returned /\ collision_head_' # collision_head_) =>
          /\ NeedsCollisionCell
          /\ FreeList(Self) = <<>>
          /\ collision_head_ < capacity_
          /\ collision_head_' = collision_head_ + 1
          /\ last'.first = collision_head_
    ]_vars


\* The state of cell i in the single-cell state machine: occupied in the
\* primary or in the collision region, on the free list, or empty.
CellState(c, i) ==
  IF _get_full(c.buckets_[i].fingerprint_full_)
  THEN IF i < c.hashable_capacity_ THEN "OccupiedPrimary" ELSE "OccupiedCollision"
  ELSE IF i \in Range(FreeList(c)) THEN "FreeCollision" ELSE "Empty"

\* The transitions of the single-cell state machine. The swap of an erase
\* moves an entry from a collision cell to a primary cell: the primary cell
\* stays occupied and the collision cell goes to the free list.
CellTransitions ==
  {<<"Empty", "OccupiedPrimary">>, <<"Empty", "OccupiedCollision">>,
   <<"FreeCollision", "OccupiedCollision">>, <<"OccupiedCollision", "FreeCollision">>,
   <<"OccupiedPrimary", "Empty">>, <<"OccupiedPrimary", "OccupiedPrimary">>}

\* C31: an insert or erase that keeps the array moves each cell along one of
\* the listed transitions or leaves its state. A primary cell is emptied only
\* by an erase that finds it without a successor, no primary cell is on the
\* free list afterwards, and an insert fills a collision cell only when the
\* primary slot of its key was occupied.
C31_CellTransitions ==
  [][(KeepsArray /\ Returned) =>
       \A i \in 0..(capacity_ - 1) :
         /\ \/ CellState(Self, i)' = CellState(Self, i)
            \/ <<CellState(Self, i), CellState(Self, i)'>> \in CellTransitions
         /\ i < hashable_capacity_ =>
              /\ i \notin Range(FreeList(Self)')
              /\ (CellState(Self, i) = "OccupiedPrimary" /\ CellState(Self, i)' = "Empty")
                   => (last'.op = "erase" /\ buckets_[i].next_ = 0)
         /\ (i >= hashable_capacity_ /\ CellState(Self, i)' = "OccupiedCollision"
             /\ CellState(Self, i) # "OccupiedCollision") =>
              /\ last'.op \in {"insert", "index"}
              /\ _get_full(buckets_[_index_from_hash(Self, hash_[last'.key], last'.z)]
                             .fingerprint_full_)
    ]_vars


\* C32: in every container the constructor has accepted, the one of capacity
\* 1 included, the primary slot of every key is an index of [0, H), and no
\* call reads or writes a cell outside the capacity_ + 1 cells of buckets_.
C32_SlotInRange ==
  /\ fault # "oob"
  /\ fault = "none" =>
       \A k \in Keys : \A z \in ZOf(Self) :
         LET slot == _index_from_hash(Self, hash_[k], z)
         IN 0 <= slot /\ slot < hashable_capacity_


\* The least n with 2^n >= H.
CeilLog2(H) == CHOOSE n \in 0..HashBits : Pow2(n) >= H /\ (n = 0 \/ Pow2(n - 1) < H)

\* The slot by the formula with m = 2^ceil(log2 H) - 1: i = h & m, folded.
SlotByFormula(h, H) ==
  LET i == h % Pow2(CeilLog2(H))
  IN IF i >= H THEN i - H ELSE i

\* The values h & mask takes under the mask of the code, all bits up to the
\* highest set bit of H, that are mapped to slot s.
MaskedValuesAt(c, s) ==
  {v \in 0..(Pow2(BitLen(c.hashable_capacity_)) - 1) : _index_from_hash(c, v, WordBits) = s}

IsPowerOfTwo(H) == \E n \in 0..HashBits : H = Pow2(n)

\* C33: for H >= 1 the slot function returns for every hash the index of the
\* formula with m = 2^ceil(log2 H) - 1, an index of [0, H), and for H a
\* power of two the same number of masked values is mapped to every slot.
C33_SlotFormula ==
  (last.op = "slot" /\ hashable_capacity_ >= 1) =>
    /\ last.ret = SlotByFormula(last.key, hashable_capacity_)
    /\ 0 <= last.ret /\ last.ret < hashable_capacity_
    /\ IsPowerOfTwo(hashable_capacity_) =>
         \A s, t \in Primary(Self) :
           Cardinality(MaskedValuesAt(Self, s)) = Cardinality(MaskedValuesAt(Self, t))

\* A hash above the mask whose masked value is folded, in a table whose H is
\* no power of two, and one in a table whose H is a power of two above 1.
C33_Witness ==
  /\ last.op = "slot" /\ hashable_capacity_ >= 3
  /\ last.key >= Pow2(BitLen(hashable_capacity_))
  /\ MaskShift(last.key, Clzl(hashable_capacity_, WordBits)) >= hashable_capacity_
  /\ ~IsPowerOfTwo(hashable_capacity_)


\* The triggers that fire in one call of _emplace(key), in order: "load"
\* where _validate_load_factor_bounds rehashes, "collision" where
\* _validate_collision_space_bounds does. The call starts over after each
\* rehash that returns.
RECURSIVE EmplaceTriggers(_, _, _, _)
EmplaceTriggers(c, key, h, z) ==
  LET find_locations == _find_hash(c, key, h[key], z)
      again(trigger) ==
        LET r == Grow(c, h, z)
        IN IF r.st # "ok" THEN <<trigger>>
           ELSE <<trigger>> \o EmplaceTriggers(r.c, key, h, z)
  IN IF find_locations.st # "ok" \/ find_locations.first # c.capacity_ THEN <<>>
     ELSE IF LoadFactorExceeded(c) THEN again("load")
     ELSE IF /\ _get_full(c.buckets_[find_locations.second].fingerprint_full_)
             /\ c.collision_tail_ = c.collision_head_
             /\ c.collision_head_ >= c.capacity_
     THEN again("collision")
     ELSE <<>>

\* The step is a call of insert or operator[].
InsertCall == fault = "none" /\ last'.op \in {"insert", "index"}

\* The triggers that fired in the call of the step.
Triggers == EmplaceTriggers(Self, last'.key, hash_, last'.z)

\* C34: a single insert call performs at most one rehash: after the growth
\* caused by either trigger the restarted insert fires neither trigger again.
C34_OneRehash ==
  [][InsertCall => Len(Triggers) <= 1]_vars

\* C34 as the code has it: the restarted insert tests both triggers again,
\* so a call can rehash more than once. Every rehash of a call at least
\* doubles the capacity under the default growth multiple; where
\* growth_multiple(g) has set another one, the first rehash multiplies by g,
\* which can leave the capacity (floor(g * C) = C), and resets the multiple,
\* so every later rehash of the call at least doubles. A call in which no
\* trigger fires leaves the capacity.
C34_RehashPerTrigger ==
  [][(InsertCall /\ Returned) =>
       /\ capacity_' >= capacity_
       /\ Triggers = <<>> => capacity_' = capacity_
       /\ Triggers # <<>> => capacity_' >= Pow2(Len(Triggers) - 1) * capacity_
       /\ growth_multiple_ = DefaultGrowth => capacity_' >= Pow2(Len(Triggers)) * capacity_
    ]_vars

\* An insert has returned after two rehashes: growth_multiple(1.25), two
\* inserts into a table of 2 cells and a third one, which rehashes to 2 cells
\* and then to 4, end in this state.
C34_Witness ==
  /\ fault = "none" /\ last.op = "insert" /\ last.ret = 1 /\ last.err = "none"
  /\ hash_ = HashIdentity /\ calls = 4 /\ capacity_ = 4 /\ size_ = 3
  /\ growth_multiple_ = DefaultGrowth
  /\ \A k \in 0..2 : Holds(Self, k, WordBits)


\* One of the two triggers holds for key k in the state of the call: the
\* insertion would exceed the load bound, or it needs a collision cell (the
\* end of the key's chain is occupied) while head == tail == C.
TriggerHolds(k, z) ==
  LET find_locations == _find_hash(Self, k, hash_[k], z)
  IN \/ size_ + 1 > (capacity_ * load_factor_) \div LFDen
     \/ /\ _get_full(buckets_[find_locations.second].fingerprint_full_)
        /\ collision_head_ = collision_tail_
        /\ collision_head_ = capacity_

\* C35: bucket_count and H change only in rehash, reserve, max_load_factor
\* and in an insert of an absent key for which one of the two triggers holds
\* when it is called; erase, clear, the lookups, an insert of a key that is
\* there and an insert with neither trigger leave both.
C35_BucketCountFrame ==
  [][(fault = "none" /\ (capacity_' # capacity_ \/ hashable_capacity_' # hashable_capacity_)) =>
       \/ last'.op \in {"rehash", "reserve", "max_load_factor"}
       \/ /\ last'.op \in {"insert", "index"}
          /\ ~Holds(Self, last'.key, last'.z)
          /\ TriggerHolds(last'.key, last'.z)
    ]_vars

\* An insert of an absent key has returned after the collision trigger: the
\* three entries share a chain, which a table of 3 cells cannot hold.
C35_Witness ==
  /\ fault = "none" /\ last.op = "insert" /\ last.ret = 1 /\ last.err = "none"
  /\ hash_ = HashSame /\ calls = 3 /\ size_ = 3 /\ capacity_ = 6


\* The step is a pass of an insert that rehashed and starts over.
StartsOver == phase.step = "pass" /\ phase'.step = "pass"

NotASetter ==
  fault = "none" /\ Returned /\ last'.op \notin {"max_load_factor", "growth_multiple"}

\* C37: a rehash, whether asked for by rehash(n) or reserve(n) or started by
\* an insert, leaves max_load_factor() and growth_multiple() at the values
\* set last: no call other than the two setters changes load_factor_ or
\* growth_multiple_.
C37_SettingsFrame ==
  [][NotASetter =>
       /\ load_factor_' = load_factor_
       /\ growth_multiple_' = growth_multiple_
    ]_vars



\* One call it = erase(it) of the loop.
LoopCall == phase.step = "loop" /\ phase'.step = "loop" /\ Returned

\* C38: each call it = erase(it) of the loop removes the entry the iterator
\* is at and no other, the iterator it returns has every entry that is left
\* in front of it, and when the iterator is end() the container is empty:
\* size() == 0 and begin() == end().
C38_EraseLoop ==
  [][LoopCall =>
       \A z \in ClzZero, k \in Keys : (z = last'.z /\ k = buckets_[phase.it].first) =>
            /\ size_' = size_ - 1
            /\ ~Holds(Self, k, z)'
            /\ \A j \in Keys \ {k} : Holds(Self, j, z)' = Holds(Self, j, z)
            /\ Range(Traverse(Self, phase.it))' = Occupied(Self)'
            /\ (phase.it = end(Self))' => (size_ = 0 /\ begin(Self) = end(Self))'
    ]_vars

\* C39: erase(begin(), end()) leaves the container empty: size() == 0, no
\* key is present, and begin() == end().
C39_EraseRange ==
  [][(phase'.step = "range" /\ Returned) =>
       \A z \in ClzZero : z = last'.z =>
         /\ size_' = 0
         /\ \A k \in Keys : ~Holds(Self, k, z)'
         /\ begin(Self)' = end(Self)'
    ]_vars



\* The erase engine of the earlier variant of the container (buckets_ has
\* capacity_ cells and no sentinel cell).
\* _find of the earlier variant: prev_index starts at capacity_, and the walk
\* stops when it stands on cell 0, before it follows the link of that cell.
RECURSIVE EarlierFindWalk(_, _, _, _, _, _)
EarlierFindWalk(c, key, fingerprint, index, prev_index, seen) ==
  IF index >= c.capacity_
  THEN [first |-> c.capacity_, second |-> prev_index, st |-> "oob"]
  ELSE LET bucket == c.buckets_[index]
       IN IF /\ _get_full(bucket.fingerprint_full_)
             /\ fingerprint = _get_fingerprint(bucket.fingerprint_full_)
             /\ bucket.first = key
          THEN [first |-> index, second |-> prev_index, st |-> "ok"]
          ELSE IF index = 0
          THEN [first |-> c.capacity_, second |-> prev_index, st |-> "ok"]
          ELSE IF bucket.next_ \in seen \cup {index}
          THEN [first |-> c.capacity_, second |-> index, st |-> "hang"]
          ELSE EarlierFindWalk(c, key, fingerprint, bucket.next_, index,
                               seen \cup {index})

EarlierFind(c, key, h, z) ==
  EarlierFindWalk(c, key, _get_fingerprint(h[key]), _index_from_hash(c, h[key], z),
                  c.capacity_, {})

\* _erase of the earlier variant: erase_index and next are copies
\* (size_type), so after std::swap(bucket, buckets_[next]) next is still the
\* index of the successor's old cell.
EarlierErase(c, key, h, z) ==
  LET findLocation == EarlierFind(c, key, h, z)
      erase_index == findLocation.first
  IN IF findLocation.st # "ok" THEN [c |-> c, ret |-> 0, st |-> findLocation.st]
     ELSE IF erase_index = c.capacity_ THEN [c |-> c, ret |-> 0, st |-> "ok"]
     ELSE LET bucket == c.buckets_[erase_index]
              next == bucket.next_
          IN IF erase_index < c.hashable_capacity_
             THEN IF next = 0
                  THEN [c |-> [c EXCEPT !.buckets_[erase_index].fingerprint_full_ =
                                           _set_empty(@),
                                        !.size_ = Decrement(@)],
                        ret |-> 1, st |-> "ok"]
                  ELSE LET swapped == [c EXCEPT !.buckets_ =
                                         [i \in DOMAIN c.buckets_ |->
                                            IF i = erase_index THEN c.buckets_[next]
                                            ELSE IF i = next THEN bucket
                                            ELSE c.buckets_[i]]]
                       IN [c |-> Release(swapped, next), ret |-> 1, st |-> "ok"]
             ELSE LET prev_index == findLocation.second
                      unlinked == [c EXCEPT !.buckets_[prev_index].next_ = next]
                  IN [c |-> Release(unlinked, erase_index), ret |-> 1, st |-> "ok"]

\* The state is well-formed: the invariants on chains, size, links and the
\* free list hold in it.
WellFormed ==
  /\ fault = "none"
  /\ C23_ChainsCoverOccupied
  /\ C24_SizeCountsOccupied
  /\ C25_ChainsShareSlot
  /\ C26_LinksWellFormed
  /\ C27_FreeListExact
  /\ C28_HeadTailInRange

\* The two engines have returned the same count and left the same cells of
\* [0, capacity_), size, head and tail.
SameOutcome(a, b) ==
  /\ a.ret = b.ret
  /\ \A i \in 0..(a.c.capacity_ - 1) : a.c.buckets_[i] = b.c.buckets_[i]
  /\ a.c.size_ = b.c.size_
  /\ a.c.collision_head_ = b.c.collision_head_
  /\ a.c.collision_tail_ = b.c.collision_tail_

\* Both engines return when they are asked to erase k.
BothReturn(k, z) ==
  /\ _erase(Self, k, hash_, z).st = "ok"
  /\ EarlierErase(Self, k, hash_, z).st = "ok"

\* C40: from a well-formed state and for every key, _erase of the
\* sentinel-cell variant and _erase of the earlier variant return the same
\* count and leave the same cells, size, head and tail.
C40_EraseEnginesAgree ==
  WellFormed =>
    \A k \in Keys, z \in ZOf(Self) :
      BothReturn(k, z) =>
        SameOutcome(_erase(Self, k, hash_, z), EarlierErase(Self, k, hash_, z))

====
